---- MODULE Spec2Model ----
(***************************************************************************)
(* The shared-document core of kindle_interactive: one Document            *)
(* (AppState.shared_text, an RwLock<String>) written by the Tauri command  *)
(* set_text, by POST /api/content and by the clipboard monitor, and read   *)
(* by get_text, GET /get and GET /api/content, whose answers the reader    *)
(* page polls and compares by fingerprint.                                 *)
(***************************************************************************)
EXTENDS Integers, Sequences, FiniteSets, TLC

VARIABLES
    shared_text,            \* state.rs: the String inside the RwLock, word by word
    lock,                   \* state.rs: the RwLock's holders, [w |-> writers, r |-> readers]
    poisoned,               \* the RwLock's poison flag (a holder of the write guard panicked)
    log,                    \* history: the texts committed to the Document, in order
    req,                    \* the request-serving contexts (commands and HTTP handlers)
    send_on_copy,           \* AppState.send_on_copy (AtomicBool)
    add_to_editor_on_copy,  \* AppState.add_to_editor_on_copy (AtomicBool)
    mon,                    \* clipboard.rs: the monitor thread (pc, last_text, the tick's locals)
    clipboard,              \* the system clipboard: a text, or ClipErr when it holds no text
    samples,                \* history: what each tick's clipboard.get_text() returned
    events,                 \* the clipboard-add-to-editor events emitted, not yet handled
    ui,                     \* app.rs: the two checkboxes' state and the editor's content
    ipc,                    \* app.rs: the invoke() calls sent to the backend, not yet run
    client                  \* server.rs GET_TEMPLATE: the reader pages (one per pull client)

vars == <<shared_text, lock, poisoned, log, req, send_on_copy, add_to_editor_on_copy,
          mon, clipboard, samples, events, ui, ipc, client>>

storeVars  == <<shared_text, lock, poisoned, log>>
flagVars   == <<send_on_copy, add_to_editor_on_copy>>
monVars    == <<mon, clipboard, samples, events>>
uiVars     == <<ui, ipc>>

----------------------------------------------------------------------------
(* Bounds of the model. *)

MaxReqs   == 2      \* request-serving contexts that can be busy at once
MaxWrites == 2      \* writes through set_text / POST /api/content in one run
MaxNow    == 2      \* distinct clock readings (nanoseconds) an error answer can see
MaxClients == 1     \* reader pages
MaxTicks  == 2      \* clipboard samples the monitor takes in one run
MaxToggles == 2     \* checkbox clicks in one run
MaxTaps   == 3      \* clicks on a reader page in one run
ScenarioTicks == 5  \* clipboard samples of a run of the de-duplication scenario

Slots   == 1..MaxReqs
Clients == 1..MaxClients
Nanos   == 1..MaxNow
Monitor == 0                \* the monitor thread's id among the lock's holders

----------------------------------------------------------------------------
(* Texts, and core.rs process_markdown over them. *)

\* AppState::default's greeting (transliterated: the module is ASCII only).
DefaultText ==
    "## Dobro pozhalovat!\n\nEto redaktor dlya vashej E-Ink chitalki. Vvedite tekst v formate Markdown zdes, i on poyavitsya na stranitse, kotoruyu vy otkroete na chitalke."
DefaultHtml ==
    "<h2>Dobro pozhalovat!</h2>\n<p>Eto redaktor dlya vashej E-Ink chitalki. Vvedite tekst v formate Markdown zdes, i on poyavitsya na stranitse, kotoruyu vy otkroete na chitalke.</p>"

WriteTexts == {"", "*hi*", "_hi_"}
ClipTexts  == {"hello", "world", "", " "}
Corpus     == WriteTexts \cup ClipTexts \cup {DefaultText}

\* A String is more than one machine word: the model keeps two, so that a
\* reader not excluded by the lock could see one word of each of two texts.
Str(t)     == [head |-> t, tail |-> t]
IsWhole(s) == s.head = s.tail
TextOf(s)  == IF s.head = s.tail THEN s.head ELSE "<torn>"

\* markdown::to_html_with_options(text, gfm) on the corpus (CommonMark):
\* emphasis by * and by _ renders alike, blank input renders to nothing.
to_html(t) ==
    CASE t = ""          -> ""
      [] t = " "         -> ""
      [] t = "hello"     -> "<p>hello</p>"
      [] t = "world"     -> "<p>world</p>"
      [] t = "*hi*"      -> "<p><em>hi</em></p>"
      [] t = "_hi_"      -> "<p><em>hi</em></p>"
      [] t = DefaultText -> DefaultHtml
      [] OTHER           -> "<p>&lt;torn&gt;</p>"

HexDigits == {"0","1","2","3","4","5","6","7","8","9","a","b","c","d","e","f"}
Sha1HexLen == 40

\* format!("{:x}", Sha1::digest(html)): the SHA-1 digests of the corpus' markups.
Sha1Hex(html) ==
    CASE html = "" ->
           <<"d","a","3","9","a","3","e","e","5","e","6","b","4","b","0","d","3","2","5","5",
             "b","f","e","f","9","5","6","0","1","8","9","0","a","f","d","8","0","7","0","9">>
      [] html = "<p>hello</p>" ->
           <<"2","1","f","5","2","7","c","9","1","a","4","f","d","0","0","e","e","c","9","f",
             "b","f","d","8","b","a","b","9","0","1","6","9","b","2","f","b","e","1","0","f">>
      [] html = "<p>world</p>" ->
           <<"8","1","9","3","a","e","e","5","a","f","d","c","4","e","2","2","9","5","0","8",
             "e","1","f","8","7","8","6","4","9","e","b","4","e","0","5","1","0","2","4","2">>
      [] html = "<p><em>hi</em></p>" ->
           <<"d","c","b","6","3","1","9","b","0","4","8","f","a","7","6","1","b","5","e","b",
             "0","0","c","0","5","f","b","b","4","3","7","1","c","5","2","1","c","0","3","3">>
      [] html = DefaultHtml ->   \* the digest of the greeting's markup as the program renders it (Cyrillic)
           <<"4","d","9","2","0","6","3","7","a","1","a","8","f","6","e","d","a","9","4","7",
             "4","0","7","6","8","2","f","a","9","a","b","2","0","4","2","e","2","8","8","0">>
      [] OTHER ->
           <<"0","b","a","d","0","b","a","d","0","b","a","d","0","b","a","d","0","b","a","d",
             "0","b","a","d","0","b","a","d","0","b","a","d","0","b","a","d","0","b","a","d">>

process_markdown_of_source(markdown_text) ==      \* a fingerprint of the raw text
    [html |-> to_html(markdown_text), hash |-> Sha1Hex(markdown_text)]
process_markdown(markdown_text) ==
    LET html_content == to_html(markdown_text)
    IN  [html |-> html_content, hash |-> Sha1Hex(html_content)]

----------------------------------------------------------------------------
(* The store: RwLock<String>. *)

\* RwLock::read succeeds while no writer holds the lock; RwLock::write while
\* nobody holds it.
CanRead_anytime(l) == TRUE                  \* a read that does not wait for the writer
CanRead(l)  == l.w = {}
CanWrite_ignoring_readers(l) == l.w = {}    \* a write that does not wait for the readers
CanWrite(l) == l.w = {} /\ l.r = {}

\* `*text = new_text`: the String's words are stored one after the other.
AssignHead_unless_empty(cur, new) ==        \* an assignment that skips an empty text
    IF new = "" THEN cur ELSE [cur EXCEPT !.head = new]
AssignHead(cur, new) == [cur EXCEPT !.head = new]
AssignTail_dropped(cur, new) == cur         \* an assignment that is not completed
AssignTail_guarded(cur, new) ==             \* a write that replaces nothing but the greeting
    IF cur.tail = DefaultText THEN [cur EXCEPT !.tail = new] ELSE cur
AssignTail(cur, new) == [cur EXCEPT !.tail = new]

Commit(l, t, who) == Append(l, [text |-> t, by |-> who])

\* as_nanos() printed in decimal.
RECURSIVE Decimal(_)
Decimal(n) ==
    LET d == <<"0","1","2","3","4","5","6","7","8","9">>[(n % 10) + 1]
    IN  IF n < 10 THEN <<d>> ELSE Append(Decimal(n \div 10), d)

\* server.rs api_content_handler: hash: format!("error-{}", now)
ErrorHash_digest(now) == Sha1Hex("error")   \* an error fingerprint made like a content one
ErrorHash(now) == <<"e","r","r","o","r","-">> \o Decimal(now)

NoHash == <<>>

\* server.rs no_cache_headers(): the HeaderMap as its (name, value) pairs.
no_cache_headers_short == {<<"cache-control", "no-cache">>}     \* Pragma and Expires left out
no_cache_headers ==
    {<<"cache-control", "no-cache, no-store, must-revalidate">>,
     <<"pragma", "no-cache">>,
     <<"expires", "0">>}
NoHeaders == {}
NoSnap == [head |-> "-", tail |-> "-"]
NoResp == [status |-> "none", body |-> "", hash |-> NoHash, headers |-> NoHeaders]

PollErrorHtml == "<h2>Server error</h2><p>No access to the data.</p>"
PageErrorHtml == "<h1>Server error</h1><p>The content could not be loaded.</p>"

----------------------------------------------------------------------------
(* The request-serving contexts: Tauri commands and axum handlers.  A slot *)
(* runs one call at a time; owner is the reader page that sent the request *)
(* (0: another caller); start is the length of the log when the call began,*)
(* at the place in the log of the call's own commit (0: none), rendered    *)
(* the length of the log when the call rendered its snapshot (0: not yet). *)

ReadOps  == {"get_text", "get_page", "api_content"}
CallerReads == {"get_text", "api_content"}      \* GET /get comes from the reader pages
WriteOps == {"set_text", "api_set_content"}

FreeReq == [op |-> "none", pc |-> "free", arg |-> "", snap |-> NoSnap,
            resp |-> NoResp, start |-> 0, owner |-> 0, at |-> 0, rendered |-> 0]

NewReq(o, a, c) == [op |-> o, pc |-> "called", arg |-> a, snap |-> NoSnap,
                    resp |-> NoResp, start |-> Len(log), owner |-> c, at |-> 0, rendered |-> 0]

\* Writes through set_text / POST /api/content begun so far.
WritesBegun ==
    Cardinality({k \in 1..Len(log) : log[k].by \in WriteOps})
    + Cardinality({r \in Slots : req[r].op \in WriteOps /\ req[r].pc \in {"called", "whalf"}})

\* The contexts are interchangeable: a call takes the lowest free one.
FirstFree(r) == req[r].pc = "free" /\ \A q \in Slots : q < r => req[q].pc # "free"

\* A caller invokes get_text, or requests GET /api/content directly.
CallRead(r, o) ==
    /\ FirstFree(r)
    /\ req' = [req EXCEPT ![r] = NewReq(o, "", 0)]
    /\ UNCHANGED <<storeVars, flagVars, monVars, uiVars, client>>

\* A caller invokes set_text(new_text), or posts {new_text} to /api/content.
CallWrite(r, o, t) ==
    /\ FirstFree(r)
    /\ WritesBegun < MaxWrites
    /\ req' = [req EXCEPT ![r] = NewReq(o, t, 0)]
    /\ UNCHANGED <<storeVars, flagVars, monVars, uiVars, client>>

\* What a read answers when shared_text.read() is Err:
\*   get_text      Err("Failed to acquire read lock: ..")
\*   get_page      500 and a fixed error page, without the reader's script
\*   api_content   500 and {html: error text, hash: "error-<nanos>"}
ReadError_unwrap(o, now) ==                 \* a reader that unwraps the lock's result
    [status |-> "panic", body |-> "", hash |-> NoHash, headers |-> NoHeaders]
ReadError(o, now) ==
    CASE o = "get_text"    -> [status |-> "Err", body |-> "Failed to acquire read lock", hash |-> NoHash, headers |-> NoHeaders]
      [] o = "get_page"    -> [status |-> "500", body |-> PageErrorHtml, hash |-> NoHash, headers |-> no_cache_headers]
      [] o = "api_content" -> [status |-> "500", body |-> PollErrorHtml, hash |-> ErrorHash(now), headers |-> no_cache_headers]

\* shared_text.read(): Err on a poisoned lock, else the read guard once no
\* writer holds the lock.
ReadAcquire(r) ==
    /\ req[r].pc = "called"
    /\ req[r].op \in ReadOps
    /\ poisoned \/ CanRead(lock)
    /\ \E now \in Nanos :
         IF poisoned
         THEN /\ req' = [req EXCEPT ![r].pc = "done", ![r].resp = ReadError(req[r].op, now)]
              /\ lock' = lock
         ELSE /\ req' = [req EXCEPT ![r].pc = "rlocked"]
              /\ lock' = [lock EXCEPT !.r = @ \cup {r}]
    /\ UNCHANGED <<shared_text, poisoned, log, flagVars, monVars, uiVars, client>>

ReadClone_keeps_guard(r) ==                 \* a reader that never drops its guard
    /\ req[r].pc = "rlocked"
    /\ lock' = lock
    /\ req' = [req EXCEPT
                 ![r].snap = shared_text,
                 ![r].pc   = IF req[r].op = "get_text" THEN "done" ELSE "cloned",
                 ![r].resp = IF req[r].op = "get_text"
                             THEN [status |-> "Ok", body |-> TextOf(shared_text), hash |-> NoHash,
                                   headers |-> NoHeaders]
                             ELSE NoResp]
    /\ UNCHANGED <<shared_text, poisoned, log, flagVars, monVars, uiVars, client>>

\* guard.clone(), and the guard dropped; get_text returns Ok(text) at once.
ReadClone(r) ==
    /\ req[r].pc = "rlocked"
    /\ lock' = [lock EXCEPT !.r = @ \ {r}]
    /\ req' = [req EXCEPT
                 ![r].snap = shared_text,
                 ![r].pc   = IF req[r].op = "get_text" THEN "done" ELSE "cloned",
                 ![r].resp = IF req[r].op = "get_text"
                             THEN [status |-> "Ok", body |-> TextOf(shared_text), hash |-> NoHash, headers |-> NoHeaders]
                             ELSE NoResp]
    /\ UNCHANGED <<shared_text, poisoned, log, flagVars, monVars, uiVars, client>>

\* process_markdown(&shared_text) and the answer: the JSON {html, hash} of
\* api_content, or GET_TEMPLATE with initial_hash and initial_content filled in.
Respond_cached(r) ==                        \* an answer rendered once, at startup, and kept
    /\ req[r].pc = "cloned"
    /\ LET pm == process_markdown(log[1].text)
       IN  req' = [req EXCEPT ![r].pc = "done", ![r].rendered = Len(log),
                              ![r].resp = [status |-> "200", body |-> pm.html, hash |-> pm.hash,
                                           headers |-> no_cache_headers]]
    /\ UNCHANGED <<storeVars, flagVars, monVars, uiVars, client>>
Respond(r) ==
    /\ req[r].pc = "cloned"
    /\ LET pm == process_markdown(TextOf(req[r].snap))
       IN  req' = [req EXCEPT ![r].pc = "done", ![r].rendered = Len(log),
                              ![r].resp = [status |-> "200", body |-> pm.html, hash |-> pm.hash, headers |-> no_cache_headers]]
    /\ UNCHANGED <<storeVars, flagVars, monVars, uiVars, client>>

\* What a write answers when shared_text.write() is Err.
WriteError_success(o) ==                    \* a writer that answers Ok / 200 whatever happened
    IF o = "set_text"
    THEN [status |-> "Ok", body |-> "", hash |-> NoHash, headers |-> NoHeaders]
    ELSE [status |-> "200", body |-> "Content updated successfully.", hash |-> NoHash, headers |-> NoHeaders]
WriteError(o) ==
    IF o = "set_text"
    THEN [status |-> "Err", body |-> "Failed to acquire write lock for set_text", hash |-> NoHash, headers |-> NoHeaders]
    ELSE [status |-> "500", body |-> "Failed to update content due to a server error.", hash |-> NoHash, headers |-> NoHeaders]

WriteOk(o) ==
    IF o = "set_text"
    THEN [status |-> "Ok", body |-> "", hash |-> NoHash, headers |-> NoHeaders]
    ELSE [status |-> "200", body |-> "Content updated successfully.", hash |-> NoHash, headers |-> NoHeaders]

\* shared_text.write(): Err on a poisoned lock, else the write guard once
\* nobody holds the lock, and the first word of `*text = new_text`.
WriteAcquire(r) ==
    /\ req[r].pc = "called"
    /\ req[r].op \in WriteOps
    /\ poisoned \/ CanWrite(lock)
    /\ IF poisoned
       THEN /\ req' = [req EXCEPT ![r].pc = "done", ![r].resp = WriteError(req[r].op)]
            /\ UNCHANGED <<lock, shared_text>>
       ELSE /\ req' = [req EXCEPT ![r].pc = "whalf"]
            /\ lock' = [lock EXCEPT !.w = @ \cup {r}]
            /\ shared_text' = AssignHead(shared_text, req[r].arg)
    /\ UNCHANGED <<poisoned, log, flagVars, monVars, uiVars, client>>

\* The rest of `*text = new_text`.
WriteStore(r) ==
    /\ req[r].pc = "whalf"
    /\ shared_text' = AssignTail(shared_text, req[r].arg)
    /\ log' = Commit(log, req[r].arg, req[r].op)
    /\ req' = [req EXCEPT ![r].pc = "wstored", ![r].at = Len(log) + 1]
    /\ UNCHANGED <<lock, poisoned, flagVars, monVars, uiVars, client>>

\* log::info!("Successfully ..") under the guard, the guard dropped, Ok / 200.
WriteRelease(r) ==
    /\ req[r].pc = "wstored"
    /\ lock' = [lock EXCEPT !.w = @ \ {r}]
    /\ req' = [req EXCEPT ![r].pc = "done", ![r].resp = WriteOk(req[r].op)]
    /\ UNCHANGED <<shared_text, poisoned, log, flagVars, monVars, uiVars, client>>

\* The logging call under the write guard panics: the guard is dropped by
\* the unwinding, which poisons the lock; the caller gets no answer.
WritePanic(r) ==
    /\ req[r].pc = "wstored"
    /\ lock' = [lock EXCEPT !.w = @ \ {r}]
    /\ poisoned' = TRUE
    /\ req' = [req EXCEPT ![r].pc = "done",
                          ![r].resp = [status |-> "panic", body |-> "", hash |-> NoHash, headers |-> NoHeaders]]
    /\ UNCHANGED <<shared_text, log, flagVars, monVars, uiVars, client>>

\* The caller has its answer; the context serves the next call.
Retire(r) ==
    /\ req[r].pc = "done"
    /\ req[r].owner = 0
    /\ req' = [req EXCEPT ![r] = FreeReq]
    /\ UNCHANGED <<storeVars, flagVars, monVars, uiVars, client>>

----------------------------------------------------------------------------
(* clipboard.rs spawn_monitor: the monitor thread.                         *)

ClipErr    == "<no text>"       \* clipboard.get_text() is Err
ClipValues == ClipTexts \cup {ClipErr}

\* current_text.trim().is_empty()
trim(t)    == IF t = " " THEN "" ELSE t
IsBlank_untrimmed(t) == t = ""              \* is_empty() without the trim()
IsBlank(t) == trim(t) = ""

\* last_text.clear() on a failed read
OnReadError_keeps(last) == last            \* a failed read that leaves last_text alone
OnReadError(last) == ""

\* clipboard.get_text().unwrap_or_default()
unwrap_or_default_empty(v) == ""            \* a last_text that starts empty
unwrap_or_default(v) == IF v = ClipErr THEN "" ELSE v

\* source: the outcome of Clipboard::new() ("none" before the thread has run it);
\* epoch (history): how many flag-setting commands had returned when the
\* tick in progress began; tried (history): for each sample the monitor went
\* on to deliver, its place in samples and the branch that took it;
\* started_on (history): what the clipboard held when last_text was set up.
MonOff == [pc |-> "start", source |-> "none", last_text |-> "", send_enabled |-> FALSE,
           add_to_editor_enabled |-> FALSE, current_text |-> "", budget |-> 0, epoch |-> 0,
           tried |-> <<>>, started_on |-> "none"]

\* Clipboard::new(): on Err the thread logs and returns; on Ok last_text
\* starts as the clipboard's text.
\* The flag-setting commands that have returned: the invokes sent less the
\* ones not yet run.
Returned == ui.sent - Len(ipc)

\* AtomicBool::load inside the loop: the flag's value now, not the one the
\* thread's local held before.
load_once(flag, local) == local             \* a flag read before the loop and never again
load(flag, local) == flag

OnInitError_goes_on == "top"                \* a thread that logs the failure and loops anyway
OnInitError == "dead"

MonStart ==
    /\ mon.pc = "start"
    /\ \E ok \in BOOLEAN :
         mon' = IF ok
                THEN [mon EXCEPT !.pc = "top", !.source = "ok",
                                 !.last_text = unwrap_or_default(clipboard),
                            !.started_on = clipboard,
                                 !.started_on = clipboard]
                ELSE [mon EXCEPT !.pc = OnInitError, !.source = "failed"]
    /\ UNCHANGED <<storeVars, req, flagVars, clipboard, samples, events, uiVars, client>>

\* let send_enabled = state.send_on_copy.load(Relaxed);
MonLoadSend ==
    /\ mon.pc = "top"
    /\ mon' = [mon EXCEPT !.pc = "ld", !.send_enabled = load(send_on_copy, mon.send_enabled),
                          !.epoch = Returned]
    /\ UNCHANGED <<storeVars, req, flagVars, clipboard, samples, events, uiVars, client>>

\* if !send_enabled && !add_to_editor_enabled
Disabled_never(send_enabled, add_to_editor_enabled) == FALSE    \* a loop without the check
Disabled(send_enabled, add_to_editor_enabled) == ~send_enabled /\ ~add_to_editor_enabled

\* let add_to_editor_enabled = state.add_to_editor_on_copy.load(Relaxed);
\* if !send_enabled && !add_to_editor_enabled { sleep; continue }
MonLoadAdd ==
    /\ mon.pc = "ld"
    /\ mon' = [mon EXCEPT
                 !.add_to_editor_enabled = load(add_to_editor_on_copy, mon.add_to_editor_enabled),
                 !.pc = IF Disabled(mon.send_enabled, add_to_editor_on_copy)
                        THEN "sleep" ELSE "sample"]
    /\ UNCHANGED <<storeVars, req, flagVars, clipboard, samples, events, uiVars, client>>

\* last_text = current_text after handle.emit(..), whether it was Ok or Err
AfterEmit_if_sent(emitted, last, current) ==        \* a failed notification is tried again
    IF emitted THEN current ELSE last
AfterEmit_forgets(emitted, last, current) == last   \* a notification that is not remembered
AfterEmit(emitted, last, current) == current

\* if send_enabled { .. } else if add_to_editor_enabled { .. }
Branch_add_first(send_enabled, add_to_editor_enabled) ==    \* the branches the other way round
    IF add_to_editor_enabled THEN "add" ELSE IF send_enabled THEN "send" ELSE "none"
Branch(send_enabled, add_to_editor_enabled) ==
    IF send_enabled THEN "send" ELSE IF add_to_editor_enabled THEN "add" ELSE "none"

\* match clipboard.get_text(): the comparison with last_text, the emit of
\* the AppendNotify branch (which may fail), the clear of a failed read.
MonSample ==
    /\ mon.pc = "sample"
    /\ Len(samples) < mon.budget
    /\ samples' = Append(samples, clipboard)
    /\ \E emitted \in BOOLEAN :
         IF clipboard = ClipErr
         THEN /\ mon' = [mon EXCEPT !.pc = "sleep", !.last_text = OnReadError(mon.last_text)]
              /\ events' = events
         ELSE IF ~IsBlank(clipboard) /\ clipboard # mon.last_text
         THEN IF Branch(mon.send_enabled, mon.add_to_editor_enabled) = "send"
              THEN /\ mon' = [mon EXCEPT !.pc = "write", !.current_text = clipboard,
                                       !.tried = Append(@, [n |-> Len(samples) + 1, by |-> "send"])]
                   /\ events' = events
              ELSE IF Branch(mon.send_enabled, mon.add_to_editor_enabled) = "add"
              THEN /\ mon' = [mon EXCEPT !.pc = "sleep",
                                  !.last_text = AfterEmit(emitted, mon.last_text, clipboard),
                                  !.tried = IF emitted
                                            THEN Append(@, [n |-> Len(samples) + 1, by |-> "add"])
                                            ELSE @]
                   /\ events' = IF emitted THEN Append(events, clipboard) ELSE events
              ELSE /\ mon' = [mon EXCEPT !.pc = "sleep"]
                   /\ events' = events
         ELSE /\ mon' = [mon EXCEPT !.pc = "sleep"]
              /\ events' = events
    /\ UNCHANGED <<storeVars, req, flagVars, clipboard, uiVars, client>>

\* Err(e) => log::error!(..): last_text is not assigned
OnWriteError_remembers(last, current) == current    \* a failed write remembered as done
OnWriteError(last, current) == last

\* state.shared_text.write(): Err (logged, last_text kept) on a poisoned
\* lock, else the guard and the first word of `*shared_text = current_text`.
MonWriteAcquire ==
    /\ mon.pc = "write"
    /\ poisoned \/ CanWrite(lock)
    /\ IF poisoned
       THEN /\ mon' = [mon EXCEPT !.pc = "sleep",
                           !.last_text = OnWriteError(mon.last_text, mon.current_text)]
            /\ UNCHANGED <<lock, shared_text>>
       ELSE /\ mon' = [mon EXCEPT !.pc = "wmid"]
            /\ lock' = [lock EXCEPT !.w = @ \cup {Monitor}]
            /\ shared_text' = AssignHead(shared_text, mon.current_text)
    /\ UNCHANGED <<poisoned, log, req, flagVars, clipboard, samples, events, uiVars, client>>

MonWriteStore_keeps_last ==                 \* a write that does not remember what it wrote
    /\ mon.pc = "wmid"
    /\ shared_text' = AssignTail(shared_text, mon.current_text)
    /\ log' = Commit(log, mon.current_text, "monitor")
    /\ lock' = [lock EXCEPT !.w = @ \ {Monitor}]
    /\ mon' = [mon EXCEPT !.pc = "sleep"]
    /\ UNCHANGED <<poisoned, req, flagVars, clipboard, samples, events, uiVars, client>>

\* The rest of the assignment, last_text = current_text, the guard dropped.
MonWriteStore ==
    /\ mon.pc = "wmid"
    /\ shared_text' = AssignTail(shared_text, mon.current_text)
    /\ log' = Commit(log, mon.current_text, "monitor")
    /\ lock' = [lock EXCEPT !.w = @ \ {Monitor}]
    /\ mon' = [mon EXCEPT !.pc = "sleep", !.last_text = mon.current_text]
    /\ UNCHANGED <<poisoned, req, flagVars, clipboard, samples, events, uiVars, client>>

\* thread::sleep(500 ms), and the loop's next iteration.
MonSleep ==
    /\ mon.pc = "sleep"
    /\ mon' = [mon EXCEPT !.pc = "top"]
    /\ UNCHANGED <<storeVars, req, flagVars, clipboard, samples, events, uiVars, client>>

\* The user (or another program) changes the system clipboard.
Copy(v) ==
    /\ v # clipboard
    /\ clipboard' = v
    /\ UNCHANGED <<storeVars, req, flagVars, mon, samples, events, uiVars, client>>

----------------------------------------------------------------------------
(* app.rs on_send_toggle / on_add_toggle, and commands.rs                  *)
(* set_send_on_copy / set_add_to_editor_on_copy.  Each invoke() is sent by *)
(* its own spawn_local task, in the order the tasks were spawned.          *)

Invoke(c, b) == [cmd |-> c, enabled |-> b]

on_send_toggle ==
    /\ ui.clicks < MaxToggles
    /\ LET new_value == ~ui.send
       IN  IF new_value /\ ui.add
           THEN /\ ui' = [ui EXCEPT !.send = new_value, !.add = FALSE, !.clicks = @ + 1,
                                    !.sent = @ + 2]
                /\ ipc' = ipc \o <<Invoke("set_add_to_editor_on_copy", FALSE),
                                   Invoke("set_send_on_copy", new_value)>>
           ELSE /\ ui' = [ui EXCEPT !.send = new_value, !.clicks = @ + 1, !.sent = @ + 1]
                /\ ipc' = Append(ipc, Invoke("set_send_on_copy", new_value))
    /\ UNCHANGED <<storeVars, req, flagVars, monVars, client>>

on_add_toggle ==
    /\ ui.clicks < MaxToggles
    /\ LET new_value == ~ui.add
       IN  IF new_value /\ ui.send
           THEN /\ ui' = [ui EXCEPT !.add = new_value, !.send = FALSE, !.clicks = @ + 1,
                                    !.sent = @ + 2]
                /\ ipc' = ipc \o <<Invoke("set_send_on_copy", FALSE),
                                   Invoke("set_add_to_editor_on_copy", new_value)>>
           ELSE /\ ui' = [ui EXCEPT !.add = new_value, !.clicks = @ + 1, !.sent = @ + 1]
                /\ ipc' = Append(ipc, Invoke("set_add_to_editor_on_copy", new_value))
    /\ UNCHANGED <<storeVars, req, flagVars, monVars, client>>

\* state.send_on_copy.store(enabled, Relaxed)
set_send_on_copy ==
    /\ ipc # <<>>
    /\ Head(ipc).cmd = "set_send_on_copy"
    /\ send_on_copy' = Head(ipc).enabled
    /\ ipc' = Tail(ipc)
    /\ UNCHANGED <<storeVars, req, add_to_editor_on_copy, monVars, ui, client>>

\* state.add_to_editor_on_copy.store(enabled, Relaxed)
set_add_to_editor_on_copy ==
    /\ ipc # <<>>
    /\ Head(ipc).cmd = "set_add_to_editor_on_copy"
    /\ add_to_editor_on_copy' = Head(ipc).enabled
    /\ ipc' = Tail(ipc)
    /\ UNCHANGED <<storeVars, req, send_on_copy, monVars, ui, client>>

----------------------------------------------------------------------------
(* app.rs: the editor, and its listener for "clipboard-add-to-editor".     *)
(* ui.editor is the editor's content (editor_ref), ui.heard the number of  *)
(* notifications the listener has handled and ui.merged (history) the      *)
(* content it produced for each of them.                                   *)

EditorTexts == {"", " ", DefaultText}

InvokeText(t) == [cmd |-> "set_text", new_text |-> t]

\* if current.trim().is_empty() { text_to_append }
\* else { format!("{}\n\n{}", current, text_to_append) }
new_content_always_joined(current, text_to_append) ==     \* a merge without the blank test
    current \o "\n\n" \o text_to_append
new_content(current, text_to_append) ==
    IF IsBlank(current) THEN text_to_append
    ELSE current \o "\n\n" \o text_to_append

\* The listener's callback: the merge into editor_ref and editor_content,
\* and the task that invokes set_text with the merged content.
on_clipboard_event ==
    /\ ui.heard < Len(events)
    /\ LET text_to_append == events[ui.heard + 1]
           merged         == new_content(ui.editor, text_to_append)
       IN  /\ ui' = [ui EXCEPT !.editor = merged, !.heard = @ + 1,
                               !.merged = Append(@, merged), !.sent = @ + 1]
           /\ ipc' = Append(ipc, InvokeText(merged))
    /\ UNCHANGED <<storeVars, req, flagVars, monVars, client>>

\* The set_text command begins for the oldest invoke; commands that are not
\* async run one at a time, in the order of their invokes.
set_text_invoked(r) ==
    /\ ipc # <<>>
    /\ Head(ipc).cmd = "set_text"
    /\ FirstFree(r)
    /\ \A q \in Slots : req[q].op = "set_text" => req[q].pc = "done"
    /\ req' = [req EXCEPT ![r] = NewReq("set_text", Head(ipc).new_text, 0)]
    /\ ipc' = Tail(ipc)
    /\ UNCHANGED <<storeVars, flagVars, monVars, ui, client>>

----------------------------------------------------------------------------
(* server.rs GET_TEMPLATE: the reader page's script.                       *)

ClientOff == [pc |-> "off", currentHash |-> NoHash, shown |-> "", isUpdating |-> FALSE,
              timeouts |-> 0,
              \* history: the last answer checkForUpdates received, the hash the page
              \* held then, and whether the answer replaced the content
              last |-> [status |-> "none", hash |-> NoHash, start |-> 0, rendered |-> 0,
                        prev |-> NoHash, acted |-> FALSE, from |-> 0],
              \* history: the length of the log when the request began whose answer
              \* the page displays (last.from: the same for the content it replaced)
              base |-> 0,
              \* the script's currentPage and totalPages; the width of the window;
              \* whether the resize timer is armed; taps (history): clicks handled
              currentPage |-> 0, totalPages |-> 0, viewport |-> "wide",
              resizeTimeout |-> FALSE, taps |-> 0,
              \* history: the fingerprint the page was loaded with and the length of
              \* the log when its GET /get began
              boot |-> [start |-> 0, hash |-> NoHash]]

Min(a, b) == IF a < b THEN a ELSE b
Max(a, b) == IF a > b THEN a ELSE b

\* Math.ceil(container.scrollWidth / wrapper.clientWidth): the screens the
\* browser lays the content out on, the trailing dummy one included.
realTotalPages(html, viewport) ==
    CASE html = ""          -> 1
      [] html = DefaultHtml -> IF viewport = "wide" THEN 3 ELSE 4
      [] OTHER              -> IF viewport = "wide" THEN 2 ELSE 3

\* updateLayout(): totalPages = max(1, realTotalPages - 1);
\* currentPage = max(0, min(currentPage, totalPages - 1)); updateUi().
updateLayout_unclamped(cl) ==                \* a layout that leaves currentPage alone
    [cl EXCEPT !.totalPages = Max(1, realTotalPages(cl.shown, cl.viewport) - 1)]
updateLayout(cl) ==
    LET total == Max(1, realTotalPages(cl.shown, cl.viewport) - 1)
    IN  [cl EXCEPT !.totalPages = total,
                   !.currentPage = Max(0, Min(cl.currentPage, total - 1))]

\* showPage(pageIndex)
showPage(cl, pageIndex) ==
    IF cl.isUpdating \/ pageIndex < 0 \/ pageIndex >= cl.totalPages
    THEN cl
    ELSE [cl EXCEPT !.currentPage = pageIndex]

\* if (data.hash !== currentHash)
ShouldUpdate_never(hash, currentHash) == FALSE      \* a page that never takes an update
ShouldUpdate_always(hash, currentHash) == TRUE      \* a page that re-renders on every poll
ShouldUpdate(hash, currentHash) == hash # currentHash

\* let currentHash = "{{ initial_hash }}", filled in by get_page_handler
initial_hash_unset(resp) == NoHash          \* a page whose placeholder is never filled in
initial_hash(resp) == resp.hash

\* The browser requests GET /get.
ClientOpen(c, r) ==
    /\ client[c].pc = "off"
    /\ FirstFree(r)
    /\ req' = [req EXCEPT ![r] = NewReq("get_page", "", c)]
    /\ client' = [client EXCEPT ![c].pc = "loading"]
    /\ UNCHANGED <<storeVars, flagVars, monVars, uiVars>>

\* The page arrives.  A 200 is GET_TEMPLATE: currentHash = initial_hash and,
\* on DOMContentLoaded, initialize(initial_content) sets isUpdating, fills
\* the container and arms the 100 ms timer.  A 500 is the fixed error page,
\* which carries no script.
ClientLoad(c, r) ==
    /\ client[c].pc = "loading"
    /\ req[r].pc = "done" /\ req[r].owner = c /\ req[r].op = "get_page"
    /\ client' = [client EXCEPT ![c] =
         IF req[r].resp.status = "200"
         THEN [@ EXCEPT !.pc = "init", !.currentHash = initial_hash(req[r].resp),
                        !.shown = req[r].resp.body, !.isUpdating = TRUE,
                        !.boot = [start |-> req[r].start, hash |-> req[r].resp.hash],
                        !.base = req[r].start]
         ELSE [@ EXCEPT !.pc = "errpage", !.shown = req[r].resp.body]]
    /\ req' = [req EXCEPT ![r] = FreeReq]
    /\ UNCHANGED <<storeVars, flagVars, monVars, uiVars>>

\* initialize's timer: updateLayout(), setupNavigation(),
\* setInterval(checkForUpdates, 3000), isUpdating = false.
ClientInitTimer(c) ==
    /\ client[c].pc = "init"
    /\ client' = [client EXCEPT ![c] = [updateLayout(@) EXCEPT !.pc = "run", !.isUpdating = FALSE]]
    /\ UNCHANGED <<storeVars, req, flagVars, monVars, uiVars>>

\* The interval fires: checkForUpdates returns at once while isUpdating,
\* else it sends fetch('/api/content').
PollTick(c, r) ==
    /\ client[c].pc = "run"
    /\ ~client[c].isUpdating
    /\ FirstFree(r)
    /\ req' = [req EXCEPT ![r] = NewReq("api_content", "", c)]
    /\ UNCHANGED <<storeVars, flagVars, monVars, uiVars, client>>

\* The fetch resolves: `if (!response.ok) return;`, else a hash that differs
\* from currentHash sets isUpdating, takes the hash, replaces the container's
\* content and arms the 100 ms timer.
PollReceive(c, r) ==
    /\ client[c].pc = "run"
    /\ req[r].pc = "done" /\ req[r].owner = c /\ req[r].op = "api_content"
    /\ LET data == req[r].resp
           seen == [status |-> data.status, hash |-> data.hash, start |-> req[r].start,
                    rendered |-> req[r].rendered,
                    prev |-> client[c].currentHash, acted |-> FALSE,
                    from |-> client[c].base]
       IN  client' = [client EXCEPT ![c] =
             IF data.status # "200"
             THEN [@ EXCEPT !.last = seen]
             ELSE IF ShouldUpdate(data.hash, @.currentHash)
             THEN [@ EXCEPT !.last = [seen EXCEPT !.acted = TRUE], !.isUpdating = TRUE,
                            !.currentHash = data.hash, !.shown = data.body,
                            !.base = req[r].start,
                            !.timeouts = @ + 1]
             ELSE [@ EXCEPT !.last = seen]]
    /\ req' = [req EXCEPT ![r] = FreeReq]
    /\ UNCHANGED <<storeVars, flagVars, monVars, uiVars>>

\* The fetch rejects (the answer is lost): catch { isUpdating = false }.
PollFail(c, r) ==
    /\ client[c].pc = "run"
    /\ req[r].pc = "done" /\ req[r].owner = c /\ req[r].op = "api_content"
    /\ client' = [client EXCEPT ![c].isUpdating = FALSE]
    /\ req' = [req EXCEPT ![r] = FreeReq]
    /\ UNCHANGED <<storeVars, flagVars, monVars, uiVars>>

\* The update's timer: currentPage = 0, updateLayout(), isUpdating = false.
UpdateTimer(c) ==
    /\ client[c].timeouts > 0
    /\ client' = [client EXCEPT ![c] =
                       [updateLayout([@ EXCEPT !.currentPage = 0])
                          EXCEPT !.timeouts = @ - 1, !.isUpdating = FALSE]]
    /\ UNCHANGED <<storeVars, req, flagVars, monVars, uiVars>>

\* setupNavigation's click listener: a click on the right half of the body
\* is showPage(currentPage + 1), one on the left half showPage(currentPage - 1).
Tap(c, d) ==
    /\ client[c].pc = "run"
    /\ client[c].taps < MaxTaps
    /\ client' = [client EXCEPT ![c] = [showPage(@, @.currentPage + d) EXCEPT !.taps = @ + 1]]
    /\ UNCHANGED <<storeVars, req, flagVars, monVars, uiVars>>

\* The window is resized: the content is laid out for the new width and the
\* listener re-arms its 250 ms timer.
Resize(c, w) ==
    /\ client[c].pc \in {"init", "run"}
    /\ w # client[c].viewport
    /\ client' = [client EXCEPT ![c].viewport = w, ![c].resizeTimeout = TRUE]
    /\ UNCHANGED <<storeVars, req, flagVars, monVars, uiVars>>

\* resizeTimeout fires: updateLayout().
ResizeTimer(c) ==
    /\ client[c].pc = "run"
    /\ client[c].resizeTimeout
    /\ client' = [client EXCEPT ![c] = [updateLayout(@) EXCEPT !.resizeTimeout = FALSE]]
    /\ UNCHANGED <<storeVars, req, flagVars, monVars, uiVars>>

----------------------------------------------------------------------------
(* Specifications. *)

InitStore_empty ==                          \* a store created with an empty Document
    /\ shared_text = Str("")
    /\ lock = [w |-> {}, r |-> {}]
    /\ poisoned = FALSE
    /\ log = <<[text |-> "", by |-> "default"]>>
    /\ req = [r \in Slots |-> FreeReq]

\* AppState::default(): the greeting in an unlocked, unpoisoned RwLock.
InitStore ==
    /\ shared_text = Str(DefaultText)
    /\ lock = [w |-> {}, r |-> {}]
    /\ poisoned = FALSE
    /\ log = <<[text |-> DefaultText, by |-> "default"]>>
    /\ req = [r \in Slots |-> FreeReq]

InitRest ==
    /\ send_on_copy = FALSE
    /\ add_to_editor_on_copy = FALSE
    /\ clipboard \in ClipValues
    /\ samples = <<>>
    /\ events = <<>>
    /\ ui = [send |-> FALSE, add |-> FALSE, clicks |-> 0, sent |-> 0,
             editor |-> "", heard |-> 0, merged |-> <<>>]
    /\ ipc = <<>>
    /\ client = [c \in Clients |-> ClientOff]

\* The state after construction: the store with the greeting, both modes
\* off, the monitor thread about to start.
InitModes ==
    /\ InitStore
    /\ InitRest
    /\ mon = [MonOff EXCEPT !.budget = MaxTicks]

NextMonitor ==
    \/ MonStart
    \/ MonLoadSend
    \/ MonLoadAdd
    \/ MonSample
    \/ MonWriteAcquire
    \/ MonWriteStore
    \/ MonSleep
    \/ \E v \in ClipValues : Copy(v)

NextModes ==
    \/ NextMonitor
    \/ on_send_toggle
    \/ on_add_toggle
    \/ set_send_on_copy
    \/ set_add_to_editor_on_copy

\* The monitor, the two checkboxes and the two flag-setting commands.
SpecModes == InitModes /\ [][NextModes]_vars

\* The store and its callers, with the monitor in ReplaceDocument mode about
\* to write a text it has just sampled.
Init ==
    /\ InitStore
    /\ send_on_copy = TRUE
    /\ add_to_editor_on_copy = FALSE
    /\ clipboard = "hello"
    /\ samples = <<"hello">>
    /\ events = <<>>
    /\ ui = [send |-> TRUE, add |-> FALSE, clicks |-> 0, sent |-> 1,
             editor |-> "", heard |-> 0, merged |-> <<>>]
    /\ ipc = <<>>
    /\ client = [c \in Clients |-> ClientOff]
    /\ mon = [pc |-> "write", source |-> "ok", last_text |-> "", send_enabled |-> TRUE,
              add_to_editor_enabled |-> FALSE, current_text |-> "hello", budget |-> 1,
              epoch |-> 1, tried |-> <<[n |-> 1, by |-> "send"]>>,
              started_on |-> ""]

Next ==
    \/ \E r \in Slots, o \in CallerReads : CallRead(r, o)
    \/ \E r \in Slots, o \in WriteOps, t \in WriteTexts : CallWrite(r, o, t)
    \/ \E r \in Slots : ReadAcquire(r)
    \/ \E r \in Slots : ReadClone(r)
    \/ \E r \in Slots : Respond(r)
    \/ \E r \in Slots : WriteAcquire(r)
    \/ \E r \in Slots : WriteStore(r)
    \/ \E r \in Slots : WriteRelease(r)
    \/ \E r \in Slots : WritePanic(r)
    \/ \E r \in Slots : Retire(r)
    \/ MonWriteAcquire
    \/ MonWriteStore

Spec == Init /\ [][Next]_vars

\* A writer is blocked in shared_text.write().
WriterWaiting ==
    \/ mon.pc = "write"
    \/ \E q \in Slots : req[q].op \in WriteOps /\ req[q].pc = "called"

\* shared_text.read() on a lock that lets no new reader in while a writer
\* is queued (the lock's own queueing; a poisoned lock answers at once).
QueuedReadAcquire(r) ==
    /\ poisoned \/ ~WriterWaiting
    /\ ReadAcquire(r)

NextFair ==
    \/ \E r \in Slots, o \in CallerReads : CallRead(r, o)
    \/ \E r \in Slots, o \in WriteOps, t \in WriteTexts : CallWrite(r, o, t)
    \/ \E r \in Slots : QueuedReadAcquire(r)
    \/ \E r \in Slots : ReadClone(r)
    \/ \E r \in Slots : Respond(r)
    \/ \E r \in Slots : WriteAcquire(r)
    \/ \E r \in Slots : WriteStore(r)
    \/ \E r \in Slots : WriteRelease(r)
    \/ \E r \in Slots : WritePanic(r)
    \/ \E r \in Slots : Retire(r)
    \/ MonWriteAcquire
    \/ MonWriteStore

\* The store, its callers and the monitor's write, with every thread that
\* can take a step eventually taking it.
FairStore ==
    /\ Init
    /\ [][NextFair]_vars
    /\ \A r \in Slots :
         /\ WF_vars(QueuedReadAcquire(r)) /\ WF_vars(ReadClone(r)) /\ WF_vars(Respond(r))
         /\ WF_vars(WriteAcquire(r)) /\ WF_vars(WriteStore(r))
         /\ WF_vars(WriteRelease(r) \/ WritePanic(r))
    /\ WF_vars(MonWriteAcquire)
    /\ WF_vars(MonWriteStore)

\* The reader pages, the handlers that serve them and the writers of the
\* Document; the monitor thread has not started.
InitClient ==
    /\ InitStore
    /\ InitRest
    /\ clipboard = ""
    /\ mon = MonOff

NextServe ==
    \/ \E r \in Slots, o \in WriteOps, t \in WriteTexts : CallWrite(r, o, t)
    \/ \E r \in Slots : ReadAcquire(r)
    \/ \E r \in Slots : ReadClone(r)
    \/ \E r \in Slots : Respond(r)
    \/ \E r \in Slots : WriteAcquire(r)
    \/ \E r \in Slots : WriteStore(r)
    \/ \E r \in Slots : WriteRelease(r)
    \/ \E r \in Slots : Retire(r)
    \/ \E c \in Clients, r \in Slots : ClientOpen(c, r)
    \/ \E c \in Clients, r \in Slots : ClientLoad(c, r)
    \/ \E c \in Clients : ClientInitTimer(c)
    \/ \E c \in Clients, r \in Slots : PollTick(c, r)
    \/ \E c \in Clients, r \in Slots : PollReceive(c, r)
    \/ \E c \in Clients : UpdateTimer(c)

NextClient ==
    \/ NextServe
    \/ \E r \in Slots : WritePanic(r)
    \/ \E c \in Clients, r \in Slots : PollFail(c, r)

SpecClient == InitClient /\ [][NextClient]_vars

\* A reader page with its taps and resizes, the server and one writer.
NextPages ==
    \/ \E r \in Slots : CallWrite(r, "api_set_content", "")
    \/ \E r \in Slots : ReadAcquire(r)
    \/ \E r \in Slots : ReadClone(r)
    \/ \E r \in Slots : Respond(r)
    \/ \E r \in Slots : WriteAcquire(r)
    \/ \E r \in Slots : WriteStore(r)
    \/ \E r \in Slots : WriteRelease(r)
    \/ \E r \in Slots : Retire(r)
    \/ \E c \in Clients, r \in Slots : ClientOpen(c, r)
    \/ \E c \in Clients, r \in Slots : ClientLoad(c, r)
    \/ \E c \in Clients : ClientInitTimer(c)
    \/ \E c \in Clients, r \in Slots : PollTick(c, r)
    \/ \E c \in Clients, r \in Slots : PollReceive(c, r)
    \/ \E c \in Clients, r \in Slots : PollFail(c, r)
    \/ \E c \in Clients : UpdateTimer(c)
    \/ \E c \in Clients, d \in {-1, 1} : Tap(c, d)
    \/ \E c \in Clients, w \in {"wide", "narrow"} : Resize(c, w)
    \/ \E c \in Clients : ResizeTimer(c)

SpecPages == InitClient /\ [][NextPages]_vars

\* The same with a lock that is never poisoned and a network that delivers
\* every answer, and with every thread, handler and timer eventually run.
FairClient ==
    /\ InitClient
    /\ [][NextServe]_vars
    /\ \A r \in Slots :
         /\ WF_vars(ReadAcquire(r)) /\ WF_vars(ReadClone(r)) /\ WF_vars(Respond(r))
         /\ WF_vars(WriteAcquire(r)) /\ WF_vars(WriteStore(r)) /\ WF_vars(WriteRelease(r))
         /\ WF_vars(Retire(r))
    /\ \A c \in Clients :
         /\ WF_vars(\E r \in Slots : ClientLoad(c, r))
         /\ WF_vars(ClientInitTimer(c))
         /\ WF_vars(\E r \in Slots : PollTick(c, r))
         /\ WF_vars(\E r \in Slots : PollReceive(c, r))
         /\ WF_vars(UpdateTimer(c))

\* The monitor alone, in ReplaceDocument mode since before its first tick,
\* started on a clipboard without text.
InitDedup ==
    /\ InitStore
    /\ send_on_copy = TRUE
    /\ add_to_editor_on_copy = FALSE
    /\ clipboard = ClipErr
    /\ samples = <<>>
    /\ events = <<>>
    /\ ui = [send |-> TRUE, add |-> FALSE, clicks |-> 0, sent |-> 1,
             editor |-> "", heard |-> 0, merged |-> <<>>]
    /\ ipc = <<>>
    /\ client = [c \in Clients |-> ClientOff]
    /\ mon = [MonOff EXCEPT !.pc = "top", !.source = "ok",
                            !.last_text = unwrap_or_default(clipboard),
                            !.started_on = clipboard,
                            !.budget = ScenarioTicks]

\* The editor in AppendNotify mode: the monitor's notifications, the
\* listener, its set_text calls, and POST /api/content beside them.  The
\* editor holds what was loaded or typed into it.
InitEditor ==
    /\ InitStore
    /\ send_on_copy = FALSE
    /\ add_to_editor_on_copy = TRUE
    /\ clipboard = ""
    /\ samples = <<>>
    /\ events = <<>>
    /\ \E e \in EditorTexts :
         ui = [send |-> FALSE, add |-> TRUE, clicks |-> 0, sent |-> 1,
               editor |-> e, heard |-> 0, merged |-> <<>>]
    /\ ipc = <<>>
    /\ client = [c \in Clients |-> ClientOff]
    /\ mon = [MonOff EXCEPT !.pc = "top", !.source = "ok",
                            !.last_text = unwrap_or_default(clipboard),
                            !.started_on = clipboard,
                            !.budget = MaxTicks, !.epoch = 1]

NextEditor ==
    \/ MonLoadSend
    \/ MonLoadAdd
    \/ MonSample
    \/ MonSleep
    \/ \E v \in {"hello", "world"} : Copy(v)
    \/ on_clipboard_event
    \/ \E r \in Slots : set_text_invoked(r)
    \/ \E r \in Slots : CallWrite(r, "api_set_content", "*hi*")
    \/ \E r \in Slots : WriteAcquire(r)
    \/ \E r \in Slots : WriteStore(r)
    \/ \E r \in Slots : WriteRelease(r)
    \/ \E r \in Slots : Retire(r)

SpecEditor == InitEditor /\ [][NextEditor]_vars

NextDedup ==
    \/ MonLoadSend
    \/ MonLoadAdd
    \/ MonSample
    \/ MonWriteAcquire
    \/ MonWriteStore
    \/ MonSleep
    \/ \E v \in ClipValues : Copy(v)

SpecDedup == InitDedup /\ [][NextDedup]_vars

\* The program after a set_text("*hi*") has panicked under the write guard:
\* its text is in the Document, the lock is poisoned, and the monitor,
\* started on a clipboard without text, runs in ReplaceDocument mode.
InitPoisoned ==
    /\ shared_text = Str("*hi*")
    /\ log = <<[text |-> DefaultText, by |-> "default"], [text |-> "*hi*", by |-> "set_text"]>>
    /\ lock = [w |-> {}, r |-> {}]
    /\ poisoned = TRUE
    /\ req = [r \in Slots |-> FreeReq]
    /\ send_on_copy = TRUE
    /\ add_to_editor_on_copy = FALSE
    /\ clipboard = ClipErr
    /\ samples = <<>>
    /\ events = <<>>
    /\ ui = [send |-> TRUE, add |-> FALSE, clicks |-> 0, sent |-> 1,
             editor |-> "", heard |-> 0, merged |-> <<>>]
    /\ ipc = <<>>
    /\ client = [c \in Clients |-> ClientOff]
    /\ mon = [MonOff EXCEPT !.pc = "top", !.source = "ok",
                            !.last_text = unwrap_or_default(clipboard),
                            !.started_on = clipboard,
                            !.budget = MaxTicks]

NextPoisoned ==
    \/ \E r \in Slots, o \in ReadOps : CallRead(r, o)
    \/ \E r \in Slots, o \in WriteOps, t \in WriteTexts : CallWrite(r, o, t)
    \/ \E r \in Slots : ReadAcquire(r)
    \/ \E r \in Slots : WriteAcquire(r)
    \/ \E r \in Slots : Retire(r)
    \/ MonLoadSend
    \/ MonLoadAdd
    \/ MonSample
    \/ MonWriteAcquire
    \/ MonSleep
    \/ \E v \in ClipValues : Copy(v)

SpecPoisoned == InitPoisoned /\ [][NextPoisoned]_vars

\* The monitor thread from its first statement, with ReplaceDocument mode
\* already switched on and a text on the clipboard, and the calls that
\* arrive once the thread has failed to open the clipboard.
InitStartup ==
    /\ InitStore
    /\ send_on_copy = TRUE
    /\ add_to_editor_on_copy = FALSE
    /\ clipboard = "hello"
    /\ samples = <<>>
    /\ events = <<>>
    /\ ui = [send |-> TRUE, add |-> FALSE, clicks |-> 0, sent |-> 1,
             editor |-> "", heard |-> 0, merged |-> <<>>]
    /\ ipc = <<>>
    /\ client = [c \in Clients |-> ClientOff]
    /\ mon = [MonOff EXCEPT !.budget = MaxTicks]

ServeAfterFailure ==
    /\ mon.source = "failed"
    /\ \/ \E r \in Slots, o \in ReadOps : CallRead(r, o)
       \/ \E r \in Slots, o \in WriteOps, t \in WriteTexts : CallWrite(r, o, t)
       \/ \E r \in Slots : ReadAcquire(r)
       \/ \E r \in Slots : ReadClone(r)
       \/ \E r \in Slots : Respond(r)
       \/ \E r \in Slots : WriteAcquire(r)
       \/ \E r \in Slots : WriteStore(r)
       \/ \E r \in Slots : WriteRelease(r)
       \/ \E r \in Slots : Retire(r)

NextStartup ==
    \/ NextMonitor
    \/ ServeAfterFailure

SpecStartup == InitStartup /\ [][NextStartup]_vars

----------------------------------------------------------------------------
(* Properties. *)

IsReadDone(r) == req[r].op \in ReadOps /\ req[r].pc = "done"

\* C1 (monotonic visibility): a get_text or a poll that began when the log
\* held n commits answers with the text (for a poll: the markup and the
\* fingerprint of the markup) of the n-th commit or of a later one, never
\* with that of an earlier write or with anything else.
C1_MonotonicVisibility ==
    \A r \in Slots :
        /\ (IsReadDone(r) /\ req[r].op = "api_content" /\ req[r].resp.status = "200") =>
              \E k \in req[r].start..Len(log) :
                  /\ req[r].resp.body = process_markdown(log[k].text).html
                  /\ req[r].resp.hash = process_markdown(log[k].text).hash
        /\ (IsReadDone(r) /\ req[r].op = "get_text" /\ req[r].resp.status = "Ok") =>
              \E k \in req[r].start..Len(log) : req[r].resp.body = log[k].text

\* Two handler writes W1, W2 that render differently were committed, a poll
\* began after them and answered W2's fingerprint.
C1_Witness ==
    \E r \in Slots :
        /\ IsReadDone(r) /\ req[r].op = "api_content" /\ req[r].resp.status = "200"
        /\ req[r].start >= 3 /\ req[r].start = Len(log)
        /\ log[req[r].start].by \in WriteOps /\ log[req[r].start - 1].by \in WriteOps
        /\ to_html(log[req[r].start].text) # to_html(log[req[r].start - 1].text)
        /\ req[r].resp.hash = process_markdown(log[req[r].start].text).hash

\* C2 (no torn reads): whatever a read has cloned is one whole text that was
\* committed to the Document, never words of two different texts.
C2_NoTornReads ==
    \A r \in Slots :
        (req[r].op \in ReadOps /\ req[r].snap # NoSnap) =>
            /\ IsWhole(req[r].snap)
            /\ \E k \in 1..Len(log) : req[r].snap = Str(log[k].text)

\* Two reads began before a write committed and raced with it: one cloned
\* the text before the write, the other the text written.
C2_Witness ==
    \E r1, r2 \in Slots :
        /\ Len(log) >= 2
        /\ req[r1].op \in ReadOps /\ req[r1].start < Len(log)
        /\ req[r2].op \in ReadOps /\ req[r2].start < Len(log)
        /\ req[r1].snap = Str(log[Len(log) - 1].text)
        /\ req[r2].snap = Str(log[Len(log)].text)
        /\ log[Len(log) - 1].text # log[Len(log)].text

\* C3 (round trip): a get_text that began after a write of T was committed,
\* with no commit since, returns exactly T.
C3_RoundTrip ==
    \A r \in Slots :
        (IsReadDone(r) /\ req[r].op = "get_text" /\ req[r].resp.status = "Ok"
            /\ req[r].start = Len(log)) =>
                req[r].resp.body = log[Len(log)].text

\* set_text("") was committed and the get_text after it returned "".
C3_Witness ==
    \E r \in Slots :
        /\ IsReadDone(r) /\ req[r].op = "get_text" /\ req[r].resp.status = "Ok"
        /\ req[r].start = Len(log) /\ Len(log) >= 2
        /\ log[Len(log)].by = "set_text" /\ log[Len(log)].text = ""
        /\ req[r].resp.body = ""

\* The actors that are between acquiring and dropping a guard.
ReadHolders  == {r \in Slots : req[r].pc = "rlocked"}
WriteHolders == {r \in Slots : req[r].pc \in {"whalf", "wstored"}}
                \cup (IF mon.pc = "wmid" THEN {Monitor} ELSE {})

\* C4 (single writer, many readers): at most one actor holds the Document
\* for writing, and while one does nobody holds it for reading.
C4_SingleWriter ==
    /\ lock.r = ReadHolders /\ lock.w = WriteHolders
    /\ Cardinality(WriteHolders) <= 1
    /\ WriteHolders # {} => ReadHolders = {}

\* Two readers hold the Document at the same time while the monitor waits
\* to write.
C4_Witness ==
    /\ Cardinality(ReadHolders) >= 2
    /\ mon.pc = "write"

----------------------------------------------------------------------------
(* The clipboard monitor. *)

ByMonitor(e) == e.by = "monitor"

\* The texts the monitor has written to the Document, in order.
MonitorWrites ==
    LET w == SelectSeq(log, ByMonitor)
    IN  [i \in 1..Len(w) |-> w[i].text]

\* The tick that took the last sample has finished.
TickDone == mon.pc \notin {"write", "wmid"}

ScenarioEmpty  == <<"hello", "hello", "world", "", "world">>
ScenarioFailed == <<"hello", "hello", "world", ClipErr, "world">>

\* C5 as stated: in ReplaceDocument mode the samples "hello", "hello",
\* "world", "", "world" produce the writes "hello", "world", "world", the
\* empty sample resetting the de-duplication.
C5_EmptySampleResets ==
    (samples = ScenarioEmpty /\ TickDone) => MonitorWrites = <<"hello", "world", "world">>

\* C5 (clipboard de-duplication), as the monitor does it: in ReplaceDocument
\* mode the samples "hello", "hello", "world", <failed read>, "world"
\* produce exactly the writes "hello", "world", "world", because a failed
\* read clears the remembered text; with an empty text as the fourth sample
\* the writes are "hello", "world", because an empty sample leaves the
\* remembered text alone.
C5_Dedup ==
    /\ (samples = ScenarioFailed /\ TickDone) => MonitorWrites = <<"hello", "world", "world">>
    /\ (samples = ScenarioEmpty /\ TickDone) => MonitorWrites = <<"hello", "world">>

\* The five ticks of the scenario with a failed fourth read have run and
\* the second "world" has been written.
C5_Witness ==
    /\ samples = ScenarioFailed
    /\ TickDone
    /\ MonitorWrites = <<"hello", "world", "world">>
    /\ mon.last_text = "world"

\* C6 (mode exclusivity) as stated: with the toggles' commands applied in
\* the order they were issued, no tick of the monitor observes both
\* send_on_copy and add_to_editor_on_copy true.
C6_NoTickSeesBoth ==
    ~(mon.pc \in {"sample", "write", "wmid"}
        /\ mon.send_enabled /\ mon.add_to_editor_enabled)

----------------------------------------------------------------------------
(* The reader page and the handlers that serve it. *)

IsSha1Hex(h) == Len(h) = Sha1HexLen /\ \A i \in 1..Len(h) : h[i] \in HexDigits

ContentHashes == {process_markdown(t).hash : t \in Corpus}

IsAnswered(r, o, status) ==
    req[r].op = o /\ req[r].pc = "done" /\ req[r].resp.status = status

C8_ErrorTakenAsChange ==
    \A c \in Clients :
        client[c].last.status = "500" => client[c].currentHash = client[c].last.hash

\* The page shows the Document's rendering and holds its fingerprint.
InSync(c) ==
    LET p == process_markdown(TextOf(shared_text))
    IN  client[c].currentHash = p.hash /\ client[c].shown = p.html

Bootstrapped(c) == client[c].pc \in {"init", "run"}

\* C9 (liveness, no lost updates): with the store available and the polls
\* delivered, every bootstrapped page eventually shows the rendering of the
\* final Document and holds its fingerprint, for good.
C9_NoLostUpdates == <>[](\A c \in Clients : Bootstrapped(c) => InSync(c))

\* All writes have been made and a page that was loaded with the greeting
\* shows the last of them.
C9_Witness ==
    /\ WritesBegun = MaxWrites
    /\ \A r \in Slots : req[r].op \notin WriteOps
    /\ Len(log) = MaxWrites + 1
    /\ to_html(log[Len(log)].text) # DefaultHtml
    /\ \E c \in Clients :
        /\ client[c].pc = "run"
        /\ client[c].last.acted
        /\ client[c].last.start = Len(log)
        /\ ~client[c].isUpdating
        /\ InSync(c)

\* C10 (no duplicated updates): the answer a page last received replaced
\* its content exactly when it was a 200 whose fingerprint differed from the
\* one the page held; so the poll after a write whose text renders the same
\* markup replaces nothing.
C10_NoDuplicateUpdates ==
    \A c \in Clients :
        client[c].last.acted <=>
            (client[c].last.status = "200" /\ client[c].last.hash # client[c].last.prev)

\* The last two writes render the same markup from different texts, and a
\* poll that began after both was received without replacing the content.
C10_Witness ==
    /\ Len(log) >= 3
    /\ log[Len(log)].text # log[Len(log) - 1].text
    /\ to_html(log[Len(log)].text) = to_html(log[Len(log) - 1].text)
    /\ \E c \in Clients :
        /\ client[c].last.status = "200"
        /\ client[c].last.start = Len(log)
        /\ ~client[c].last.acted
        /\ client[c].last.prev = process_markdown(log[Len(log) - 1].text).hash

----------------------------------------------------------------------------
(* The writers of the Document. *)

IsWriteDone(r) == req[r].op \in WriteOps /\ req[r].pc = "done"

Succeeded(r) == req[r].resp.status \in {"Ok", "200"}
Failed(r)    == req[r].resp.status \in {"Err", "500"}

\* C11 (no silent drops): a set_text or POST /api/content that answered
\* Ok / 200 has committed exactly its text, and the Document is that text
\* as long as nobody has written since; one that answered Err / 500 has
\* committed nothing; and every answer is one or the other unless the
\* writer panicked.
C11_NoSilentDrops ==
    \A r \in Slots : IsWriteDone(r) =>
        /\ Succeeded(r) =>
              /\ req[r].at > req[r].start
              /\ log[req[r].at] = [text |-> req[r].arg, by |-> req[r].op]
              /\ (Len(log) = req[r].at /\ lock.w = {}) => shared_text = Str(req[r].arg)
        /\ Failed(r) => req[r].at = 0
        /\ Succeeded(r) \/ Failed(r) \/ req[r].resp.status = "panic"

\* A write has been refused on a poisoned lock, after another one committed.
C11_Witness ==
    /\ poisoned
    /\ \E r \in Slots :
        /\ IsWriteDone(r) /\ Failed(r)
        /\ req[r].arg # TextOf(shared_text)
        /\ Len(log) > 1

\* C12 (unconditional last-writer-wins): the commits are in the order in
\* which the writers acquired the store, every writer that acquired it has
\* committed its text whatever the Document was, and whenever no writer
\* holds the store the Document is, whole, the text committed last.
C12_LastWriterWins ==
    /\ lock.w = {} => shared_text = Str(log[Len(log)].text)
    /\ \A r \in Slots :
          (req[r].op \in WriteOps /\ req[r].at > 0) =>
              log[req[r].at] = [text |-> req[r].arg, by |-> req[r].op]
    /\ \A r, q \in Slots :
          (r # q /\ req[r].at > 0 /\ req[q].at > 0) => req[r].at # req[q].at

\* set_text, POST /api/content and the monitor were all waiting to write the
\* greeting's store at once; the three have written, and the Document is
\* the text of the last of them, which differs from the one before.
C12_Witness ==
    /\ lock.w = {}
    /\ Len(log) = 4
    /\ \E r, q \in Slots :
        /\ IsWriteDone(r) /\ IsWriteDone(q)
        /\ req[r].op = "set_text" /\ req[q].op = "api_set_content"
        /\ req[r].start = 1 /\ req[q].start = 1
        /\ req[r].at = 2 /\ req[q].at = 4
        /\ log[3].by = "monitor"
        /\ req[q].arg # log[3].text
        /\ shared_text = Str(req[q].arg)

----------------------------------------------------------------------------
(* The poisoned lock. *)

\* The explicit error each operation answers with.
ExplicitError(r) ==
    IF req[r].op \in ReadOps
    THEN /\ req[r].resp.status = (IF req[r].op = "get_text" THEN "Err" ELSE "500")
         /\ req[r].resp.body \in {"Failed to acquire read lock", PageErrorHtml, PollErrorHtml}
    ELSE req[r].resp = WriteError(req[r].op)

\* The monitor's last tick sampled a text it had to write and did not.
MonWriteFailed ==
    /\ mon.pc = "sleep"
    /\ samples # <<>>
    /\ samples[Len(samples)] # ClipErr
    /\ ~IsBlank(samples[Len(samples)])
    /\ samples[Len(samples)] # mon.last_text

----------------------------------------------------------------------------
(* The rendering. *)

\* C14 (default state): a poll answered before any write has status 200 and
\* carries exactly the markup and the fingerprint of process_markdown on
\* the default greeting.
C14_DefaultState ==
    \A r \in Slots :
        (req[r].op = "api_content" /\ req[r].pc = "done" /\ Len(log) = 1) =>
            /\ req[r].snap = Str(DefaultText)
            /\ req[r].resp = [status |-> "200",
                              body   |-> process_markdown(DefaultText).html,
                              hash   |-> process_markdown(DefaultText).hash,
                              headers |-> no_cache_headers]
            /\ req[r].resp.body = DefaultHtml

\* A poll has been answered while the only content ever stored is the
\* greeting.
C14_Witness ==
    /\ Len(log) = 1
    /\ shared_text = Str(DefaultText)
    /\ \E r \in Slots :
        /\ req[r].op = "api_content" /\ req[r].pc = "done"
        /\ req[r].start = 1
        /\ req[r].resp.status = "200"
        /\ IsSha1Hex(req[r].resp.hash)

IsRendered(r) == req[r].op \in {"api_content", "get_page"} /\ req[r].pc = "done"
                    /\ req[r].resp.status = "200"

\* C15 (fingerprint determinism): over the corpus, and over every pair of
\* answers the handlers have given in a run, two fingerprints are equal
\* exactly when the two markups are equal, whatever the source texts and
\* whatever was rendered before; each answer's fingerprint is the digest of
\* its own markup.
C15_FingerprintDeterminism ==
    /\ Len(log) = 1 =>          \* a fact of the function alone: stated before any write
          \A t1, t2 \in Corpus :
              (process_markdown(t1).html = process_markdown(t2).html)
                  <=> (process_markdown(t1).hash = process_markdown(t2).hash)
    /\ \A r \in Slots : IsRendered(r) =>
          /\ req[r].resp.hash = Sha1Hex(req[r].resp.body)
          /\ req[r].resp.body = to_html(TextOf(req[r].snap))
    /\ \A r, q \in Slots : (IsRendered(r) /\ IsRendered(q)) =>
          ((req[r].resp.body = req[q].resp.body) <=> (req[r].resp.hash = req[q].resp.hash))

\* Two polls have rendered different texts to the same markup and carry the
\* same fingerprint, the second after the Document had held other content.
C15_Witness ==
    \E r, q \in Slots :
        /\ IsRendered(r) /\ IsRendered(q)
        /\ req[r].snap # req[q].snap
        /\ req[r].resp.body = req[q].resp.body
        /\ req[r].resp.hash = req[q].resp.hash
        /\ req[q].start > req[r].start

----------------------------------------------------------------------------
(* The responses of the pull endpoints. *)

\* C16 (no caching): every answer of the poll endpoint and of the bootstrap
\* endpoint, 200 or 500, carries Cache-Control: no-cache, no-store,
\* must-revalidate, Pragma: no-cache and Expires: 0.
C16_NoCacheHeaders ==
    \A r \in Slots :
        (req[r].op \in {"api_content", "get_page"} /\ req[r].pc = "done") =>
            /\ req[r].resp.status \in {"200", "500"}
            /\ <<"cache-control", "no-cache, no-store, must-revalidate">> \in req[r].resp.headers
            /\ <<"pragma", "no-cache">> \in req[r].resp.headers
            /\ <<"expires", "0">> \in req[r].resp.headers

\* A bootstrap has been answered 500 on the poisoned lock, with the headers.
C16_Witness ==
    \E r \in Slots :
        /\ req[r].op = "get_page" /\ req[r].pc = "done"
        /\ req[r].resp.status = "500"
        /\ req[r].resp.headers = no_cache_headers

----------------------------------------------------------------------------
(* The monitor thread's start. *)

\* Every call that has returned was served from the Document: a read with
\* a committed text, whole, a write with its own commit.
Served(r) ==
    IF req[r].op \in WriteOps
    THEN /\ Succeeded(r)
         /\ log[req[r].at].text = req[r].arg
    ELSE /\ req[r].resp.status \in {"Ok", "200"}
         /\ IsWhole(req[r].snap)
         /\ \E k \in req[r].start .. Len(log) : req[r].snap = Str(log[k].text)
         /\ req[r].op # "get_text" =>
               req[r].resp.body = process_markdown(TextOf(req[r].snap)).html

\* C17 (producer failure is isolated): once Clipboard::new() has failed the
\* thread is over, it has read no sample, written nothing and emitted
\* nothing; the lock is free of it and not poisoned, every call that has
\* returned was served, and the Document is the last text committed by the
\* callers (the greeting if none).
C17_ProducerFailureIsolated ==
    mon.source = "failed" =>
        /\ mon.pc = "dead"
        /\ samples = <<>> /\ events = <<>> /\ MonitorWrites = <<>>
        /\ Monitor \notin lock.w /\ ~poisoned
        /\ \A r \in Slots : req[r].pc = "done" => Served(r)
        /\ lock.w = {} => shared_text = Str(log[Len(log)].text)

\* The thread has failed to open the clipboard, and afterwards an update
\* has been committed and a poll has returned its rendering.
C17_Witness ==
    /\ mon.source = "failed"
    /\ mon.pc = "dead"
    /\ \E r, q \in Slots :
        /\ req[r].op = "api_set_content" /\ req[r].pc = "done" /\ Succeeded(r)
        /\ req[q].op = "api_content" /\ req[q].pc = "done"
        /\ req[q].start = req[r].at
        /\ req[q].resp.body = to_html(req[r].arg)
        /\ req[r].arg # ""

----------------------------------------------------------------------------
(* The monitor's ticks. *)

LastSample == samples[Len(samples)]

\* The tick that took the last sample is over and the loop goes on.
LoopGoesOn == mon.pc \in {"sleep", "top", "ld", "sample"}

\* C18 (a failed read resets the de-duplication): in ReplaceDocument mode a
\* tick whose read failed leaves lastObservedText empty and the loop
\* running; and when a text, a failed read and the same text again are
\* sampled in a row, the text is written again: the monitor's last two
\* writes are both that text.
C18_FailedReadResets ==
    /\ (samples # <<>> /\ LastSample = ClipErr) => (mon.last_text = "" /\ LoopGoesOn)
    /\ \A n \in 3..Len(samples) :
          ( /\ n = Len(samples) /\ TickDone
            /\ samples[n] # ClipErr /\ ~IsBlank(samples[n])
            /\ samples[n-1] = ClipErr
            /\ samples[n-2] = samples[n] )
          => /\ Len(MonitorWrites) >= 2
             /\ MonitorWrites[Len(MonitorWrites)] = samples[n]
             /\ MonitorWrites[Len(MonitorWrites) - 1] = samples[n]
             /\ mon.last_text = samples[n]
             /\ shared_text = Str(samples[n])

\* "hello" was written, the next read failed, and "hello" read again was
\* written a second time.
C18_Witness ==
    /\ samples = <<"hello", ClipErr, "hello">>
    /\ TickDone
    /\ MonitorWrites = <<"hello", "hello">>

\* The tick at its clipboard read, about to see a text that is not blank
\* and is not the one it remembers.
SeesNewText ==
    /\ mon.pc = "sample" /\ Len(samples) < mon.budget
    /\ clipboard # ClipErr /\ clipboard \notin {"", " "}
    /\ clipboard # mon.last_text

\* C19 (ReplaceDocument tick): a tick with send_on_copy loaded true that
\* reads a new, non-blank text goes on to write exactly that text and emits
\* nothing; and when its write is done on an available store the Document
\* is that text, one commit by the monitor has been added, lastObservedText
\* is that text and nothing has been emitted.
C19_ReplaceDocumentTick ==
    [][ /\ (SeesNewText /\ mon.send_enabled /\ mon' # mon) =>
              /\ mon'.pc = "write"
              /\ mon'.current_text = clipboard
              /\ samples' = Append(samples, clipboard)
              /\ events' = events
              /\ UNCHANGED <<shared_text, log>>
        /\ (mon.pc = "write" /\ ~poisoned /\ mon' # mon) =>
              /\ mon'.pc = "wmid"
              /\ mon'.current_text = mon.current_text
              /\ Monitor \in lock'.w
        /\ (mon.pc = "wmid" /\ mon' # mon) =>
              /\ mon'.pc = "sleep"
              /\ shared_text' = Str(mon.current_text)
              /\ log' = Append(log, [text |-> mon.current_text, by |-> "monitor"])
              /\ mon'.last_text = mon.current_text
              /\ events' = events
              /\ lock'.w = {}
      ]_vars

\* "hello" and then "world" were sampled in ReplaceDocument mode: each was
\* written, the Document is "world", and no notification went out.
C19_Witness ==
    /\ samples = <<"hello", "world">>
    /\ TickDone
    /\ MonitorWrites = <<"hello", "world">>
    /\ shared_text = Str("world")
    /\ mon.last_text = "world"
    /\ events = <<>>

\* C20 (AppendNotify tick): a tick with only add_to_editor_on_copy loaded
\* true that reads a new, non-blank text leaves the Document, the log and
\* the lock alone, emits at most one clipboard-add-to-editor event, which
\* carries the text (none when the emission fails), and sets
\* lastObservedText to the text either way; notifications are emitted by
\* no other step.
C20_AppendNotifyTick ==
    [][ /\ (SeesNewText /\ ~mon.send_enabled /\ mon.add_to_editor_enabled /\ mon' # mon) =>
              /\ mon'.pc = "sleep"
              /\ mon'.last_text = clipboard
              /\ samples' = Append(samples, clipboard)
              /\ (events' = Append(events, clipboard) \/ events' = events)
              /\ UNCHANGED <<shared_text, log, lock, poisoned>>
        /\ events' # events =>
              (SeesNewText /\ ~mon.send_enabled /\ mon.add_to_editor_enabled)
      ]_vars

\* In AppendNotify mode, after a failed read, "hello" was sampled and its
\* notification failed: nothing was emitted or written, and "hello" is
\* remembered all the same.
C20_Witness ==
    /\ samples = <<ClipErr, "hello">>
    /\ mon.pc = "sleep"
    /\ ~mon.send_enabled /\ mon.add_to_editor_enabled
    /\ mon.last_text = "hello"
    /\ events = <<>>
    /\ Len(log) = 1

Blanks == {"", " "}

\* The tick at its clipboard read, about to see a text that is blank or is
\* the one it remembers.
SeesNothingNew ==
    /\ mon.pc = "sample" /\ Len(samples) < mon.budget
    /\ clipboard # ClipErr
    /\ (clipboard \in Blanks \/ clipboard = mon.last_text)

\* The n-th sample could be delivered: it is a text, not blank, and since
\* any earlier sample of the same text another text or a failed read was
\* sampled.
Deliverable(n) ==
    /\ samples[n] \notin Blanks \cup {ClipErr}
    /\ \A m \in 1..(n-1) :
          samples[m] = samples[n] =>
              \E k \in (m+1)..(n-1) : samples[k] \notin Blanks \cup {samples[n]}

InSeq(q, x) == \E i \in 1..Len(q) : q[i] = x

\* C21 (blank or equal sample is a no-op): a tick that reads a blank text,
\* or the text it remembers, goes to sleep having written nothing, emitted
\* nothing and kept lastObservedText; hence no blank text is ever written
\* or notified, and there are never more deliveries than samples that
\* differ from the text sampled before them or follow a failed read.
C21_NoOpSample ==
    /\ [][ (SeesNothingNew /\ mon' # mon) =>
              /\ mon'.pc = "sleep"
              /\ mon'.last_text = mon.last_text
              /\ events' = events
              /\ UNCHANGED <<shared_text, log, lock>>
         ]_vars
    /\ [](\A b \in Blanks : ~InSeq(MonitorWrites, b) /\ ~InSeq(events, b))
    /\ [](Len(MonitorWrites) + Len(events)
             <= Cardinality({n \in 1..Len(samples) : Deliverable(n)}))

\* In AppendNotify mode "hello" was sampled and notified, then a
\* whitespace-only text was sampled: nothing more was delivered and "hello"
\* is still remembered.
C21_Witness ==
    /\ samples = <<"hello", " ">>
    /\ mon.pc = "sleep"
    /\ ~mon.send_enabled /\ mon.add_to_editor_enabled
    /\ mon.last_text = "hello"
    /\ events = <<"hello">>
    /\ MonitorWrites = <<>>

\* C22 (disabled tick): a tick that has loaded both flags false goes to
\* sleep without reading the clipboard, writing, emitting or touching
\* lastObservedText, so no tick is ever at or past its clipboard read with
\* both flags loaded false; and a tick of an enabled mode that then reads a
\* text differing from lastObservedText delivers it (writes it, or notifies
\* it and remembers it).
C22_DisabledTick ==
    /\ [][ /\ (mon.pc = "ld" /\ ~mon.send_enabled /\ ~add_to_editor_on_copy /\ mon' # mon) =>
                 /\ mon'.pc = "sleep"
                 /\ mon'.last_text = mon.last_text
                 /\ samples' = samples
                 /\ events' = events
                 /\ UNCHANGED <<shared_text, log, lock>>
           /\ (SeesNewText /\ mon' # mon) =>
                 \/ mon'.pc = "write" /\ mon'.current_text = clipboard
                 \/ mon'.pc = "sleep" /\ mon'.last_text = clipboard
         ]_vars
    /\ [](mon.pc \in {"sample", "write", "wmid"} =>
             (mon.send_enabled \/ mon.add_to_editor_enabled))

\* A tick has just been skipped with both flags false while the clipboard
\* holds a text the monitor has never seen.
C22_Witness ==
    /\ mon.pc = "sleep"
    /\ ~mon.send_enabled /\ ~mon.add_to_editor_enabled
    /\ samples = <<>>
    /\ clipboard = "world"
    /\ mon.last_text = "hello"
    /\ Len(log) = 1 /\ events = <<>>

\* No flag-setting command has run since the tick in progress began.
SettledBeforeTick == mon.epoch = Returned

\* C23 (a mode change takes effect within one interval): a tick that began
\* after the last flag-setting command returned holds the flags' current
\* values in its locals, so it acts on the new mode; in particular, once
\* both flags are cleared only a tick that had begun before the clearing
\* can still be at or past its clipboard read.
C23_ModeChangeNextTick ==
    /\ (mon.pc = "ld" /\ SettledBeforeTick) => mon.send_enabled = send_on_copy
    /\ (mon.pc \in {"sample", "write", "wmid"} /\ SettledBeforeTick) =>
          /\ mon.send_enabled = send_on_copy
          /\ mon.add_to_editor_enabled = add_to_editor_on_copy
    /\ (SettledBeforeTick /\ ~send_on_copy /\ ~add_to_editor_on_copy) =>
          mon.pc \notin {"sample", "write", "wmid"}

\* ReplaceDocument was switched on and off again; both flags are clear, no
\* command is pending, and the tick that was in flight is about to write.
C23_Witness ==
    /\ ~send_on_copy /\ ~add_to_editor_on_copy
    /\ ipc = <<>>
    /\ Returned = 2
    /\ mon.pc = "write"
    /\ mon.send_enabled
    /\ mon.epoch = 1

----------------------------------------------------------------------------
(* The lock's critical sections. *)

\* A writer past its assignment, at its log output and its answer.
AtLogOutput(r) == req[r].op \in WriteOps /\ req[r].pc = "wstored"

\* C24 (the lock is held for the copy or replace step only) as stated: the
\* readers hold the lock only at their clone, the monitor only at its
\* assignment, and no writer holds it at its log output or while it builds
\* its answer.
C24_LockOnlyForReplace ==
    /\ \A r \in lock.r : req[r].pc = "rlocked"
    /\ Monitor \in lock.w => mon.pc = "wmid"
    /\ \A r \in Slots : AtLogOutput(r) => r \notin lock.w

----------------------------------------------------------------------------
(* What the pull endpoints answer. *)

\* C25 (no caching, one snapshot): every 200 answer of the poll and of the
\* bootstrap endpoint renders one text that the Document held between the
\* call's start and its render: the markup is that text's rendering and
\* the fingerprint is the digest of that markup, whether or not a write
\* was committed between the read and the render.
C25_OneSnapshot ==
    \A r \in Slots : IsRendered(r) =>
        \E k \in req[r].start .. req[r].rendered :
            /\ req[r].snap = Str(log[k].text)
            /\ req[r].resp.body = to_html(log[k].text)
            /\ req[r].resp.hash = Sha1Hex(to_html(log[k].text))

\* A poll read the Document, a write of a text that renders otherwise was
\* committed, and then the poll rendered: it answered with the markup and
\* the fingerprint of the text it had read.
C25_Witness ==
    \E r \in Slots :
        /\ req[r].op = "api_content" /\ IsRendered(r)
        /\ req[r].rendered = Len(log)
        /\ req[r].rendered > req[r].start
        /\ req[r].snap = Str(log[req[r].start].text)
        /\ to_html(log[Len(log)].text) # req[r].resp.body
        /\ req[r].resp.hash = Sha1Hex(req[r].resp.body)

\* The page has received a poll and no write has been committed since its
\* own GET /get began.
PolledSameDocument(c) ==
    /\ client[c].last.status = "200"
    /\ client[c].last.rendered = client[c].boot.start
    /\ Len(log) = client[c].boot.start

\* C26 (bootstrap equals poll): a page that was loaded and then received a
\* poll of the same Document, no write having been committed in between,
\* found the polled fingerprint equal to the one it was loaded with, which
\* it still held, and did not replace its content; and the content it shows
\* is the markup that fingerprint is the digest of.
C26_BootstrapEqualsPoll ==
    \A c \in Clients : PolledSameDocument(c) =>
        /\ client[c].last.hash = client[c].boot.hash
        /\ client[c].last.prev = client[c].boot.hash
        /\ ~client[c].last.acted
        /\ client[c].currentHash = client[c].boot.hash
        /\ client[c].currentHash = Sha1Hex(client[c].shown)

\* A page was loaded after a write and then polled with no write in
\* between: the poll changed nothing.
C26_Witness ==
    \E c \in Clients :
        /\ PolledSameDocument(c)
        /\ client[c].boot.start = 2
        /\ client[c].shown = to_html(log[2].text)
        /\ client[c].shown # DefaultHtml
        /\ ~client[c].isUpdating

----------------------------------------------------------------------------
(* Termination. *)

----------------------------------------------------------------------------
(* The editor's merge. *)

\* The texts the editor's set_text calls have stored, in the log's order.
EditorWrites == SelectSeq(log, LAMBDA e : e.by = "set_text")

\* The listener handles a notification in this step.
Hears == ui'.heard = ui.heard + 1

MergedAsStated ==
    LET X == events[ui.heard + 1]
    IN  /\ ui'.editor = (IF ui.editor \in {"", " "} THEN X
                         ELSE ui.editor \o "\n\n" \o X)
        /\ ipc' = Append(ipc, [cmd |-> "set_text", new_text |-> ui'.editor])

DocumentIsMerged ==
    /\ Len(EditorWrites) <= Len(ui.merged)
    /\ \A i \in 1..Len(EditorWrites) : EditorWrites[i].text = ui.merged[i]
    /\ \A r \in Slots :
         (/\ req[r].op = "set_text"
          /\ req[r].pc \in {"wstored", "done"}
          /\ req[r].at = Len(log)
          /\ lock.w \subseteq {r})
         => /\ Succeeded(r) \/ req[r].pc = "wstored"
            /\ shared_text = Str(ui.merged[Len(EditorWrites)])

----------------------------------------------------------------------------
(* A tick that loaded both flags true. *)

SawBoth == mon.send_enabled /\ mon.add_to_editor_enabled

\* C29 (both flags observed true): a tick that loaded both flags true and
\* reads a new, non-blank text behaves as ReplaceDocument only: it goes to
\* write that text to the store, and from the read to the end of the write
\* no notification is emitted.
C29_BothMeansReplace ==
    [][ /\ (SeesNewText /\ SawBoth /\ mon' # mon) =>
              /\ mon'.pc = "write"
              /\ mon'.current_text = clipboard
              /\ events' = events
        /\ (mon.pc \in {"write", "wmid"} /\ SawBoth /\ mon' # mon) =>
              /\ events' = events
              /\ mon'.pc = "sleep" =>
                    \/ poisoned
                    \/ /\ log' = Append(log, [text |-> mon.current_text, by |-> "monitor"])
                       /\ mon'.last_text = mon.current_text
      ]_vars

\* A tick that loaded both flags true sampled "hello", wrote it to the
\* store and emitted nothing.
C29_Witness ==
    /\ SawBoth
    /\ mon.pc = "sleep"
    /\ samples = <<"hello">>
    /\ MonitorWrites = <<"hello">>
    /\ shared_text = Str("hello")
    /\ events = <<>>

----------------------------------------------------------------------------
(* A failed write of the monitor. *)

\* The tick before this one sampled a text it went to write, and the write
\* failed: the text is not the one the monitor remembers.
LastWriteFailed ==
    /\ samples # <<>>
    /\ samples[Len(samples)] \notin {ClipErr, "", " "}
    /\ samples[Len(samples)] # mon.last_text

\* C30 (failed write in ReplaceDocument mode): when the monitor cannot get
\* the store for writing, the Document and last_text stay as they were; and
\* the next tick, finding the same text on the clipboard with the mode still
\* loaded as enabled, goes to write it again.
C30_FailedWriteRetried ==
    [][ /\ (mon.pc = "write" /\ poisoned /\ mon' # mon) =>
              /\ mon'.pc = "sleep"
              /\ mon'.last_text = mon.last_text
              /\ UNCHANGED <<shared_text, log, events>>
        /\ (/\ mon.pc = "sample" /\ Len(samples) < mon.budget
            /\ LastWriteFailed
            /\ clipboard = samples[Len(samples)]
            /\ mon.send_enabled
            /\ mon' # mon) =>
              /\ mon'.pc = "write"
              /\ mon'.current_text = clipboard
      ]_vars

\* "hello" stayed on the clipboard for two ticks on the poisoned store: it
\* was attempted twice, and the Document and last_text are as before.
C30_Witness ==
    /\ poisoned
    /\ samples = <<"hello", "hello">>
    /\ mon.pc = "sleep"
    /\ mon.send_enabled
    /\ mon.current_text = "hello"
    /\ mon.last_text = ""
    /\ shared_text = Str("*hi*")
    /\ Len(log) = 2

----------------------------------------------------------------------------
(* last_text across the modes. *)

\* Between samples i and j the clipboard was seen to hold nothing but t or
\* blank text, and every read succeeded.
StayedOn(t, i, j) ==
    \A k \in (i + 1)..(j - 1) : samples[k] \in {t, "", " "}

\* C31 (one lastObservedText for both modes): on the available store a text
\* the monitor has delivered, by a write or by a notification, is not
\* delivered again, under the same mode or the other, while the samples
\* since show it still on the clipboard and no read has failed.
C31_SharedLastText ==
    ~poisoned =>
        \A a, b \in 1..Len(mon.tried) :
            (/\ a < b
             /\ samples[mon.tried[a].n] = samples[mon.tried[b].n])
            => ~StayedOn(samples[mon.tried[a].n], mon.tried[a].n, mon.tried[b].n)

\* "hello" was notified in AppendNotify mode; the mode was switched to
\* ReplaceDocument and the next tick, which loaded the new mode, sampled
\* "hello" again and delivered nothing.
C31_Witness ==
    /\ samples = <<"hello", "hello">>
    /\ mon.tried = <<[n |-> 1, by |-> "add"]>>
    /\ events = <<"hello">>
    /\ mon.pc = "sleep"
    /\ mon.send_enabled /\ ~mon.add_to_editor_enabled
    /\ MonitorWrites = <<>>

----------------------------------------------------------------------------
(* last_text at startup. *)

\* Every read so far has found the text the thread started on.
StillStartupText ==
    /\ mon.source = "ok"
    /\ mon.started_on # ClipErr
    /\ \A k \in 1..Len(samples) : samples[k] = mon.started_on

\* C32 (last_text at startup): until the first read of a tick last_text is
\* the clipboard text the thread started on, or empty when that read
\* failed; and while every read finds the text the thread started on,
\* whichever modes are switched on, nothing is written to the store and
\* nothing is notified.
C32_StartupTextNotDelivered ==
    /\ (mon.source = "ok" /\ samples = <<>>) =>
          mon.last_text = (IF mon.started_on = ClipErr THEN "" ELSE mon.started_on)
    /\ StillStartupText =>
          /\ mon.last_text = mon.started_on
          /\ mon.tried = <<>>
          /\ mon.pc \notin {"write", "wmid"}
          /\ MonitorWrites = <<>>
          /\ events = <<>>
          /\ shared_text = Str(DefaultText)

\* The thread started on "hello"; ReplaceDocument mode was switched on and
\* two ticks that had loaded it read "hello": nothing was delivered.
C32_Witness ==
    /\ mon.started_on = "hello"
    /\ samples = <<"hello", "hello">>
    /\ send_on_copy /\ mon.send_enabled
    /\ mon.pc = "sleep"
    /\ mon.tried = <<>>
    /\ Len(log) = 1
    /\ events = <<>>

----------------------------------------------------------------------------
(* The order of a page's updates. *)

\* The last answer replaced the page's content with a rendering made
\* before the request began whose answer the page displayed until then,
\* and nothing written since renders to what the page shows now.
WentBack(c) ==
    /\ client[c].last.acted
    /\ client[c].last.rendered < client[c].last.from
    /\ \A k \in (client[c].last.rendered + 1)..Len(log) :
          to_html(log[k].text) # client[c].shown

\* C33 (a polling page's view never goes backwards): no update replaces the
\* content the page displays with the rendering of an earlier Document.
C33_NeverBackwards == \A c \in Clients : ~WentBack(c)

----------------------------------------------------------------------------
(* The reader page's pagination. *)

PagesInRange ==
    \A c \in Clients :
        client[c].totalPages > 0 =>
            /\ client[c].totalPages >= 1
            /\ 0 <= client[c].currentPage
            /\ client[c].currentPage <= client[c].totalPages - 1

\* The first layout is made by initialize's timer, and none is undone.
LaidOutOnceRunning ==
    \A c \in Clients : client[c].pc = "run" => client[c].totalPages >= 1

TapsAndUpdates ==
    \A c \in Clients :
        /\ (client'[c].taps # client[c].taps /\ client[c].isUpdating) =>
              client'[c].currentPage = client[c].currentPage
        /\ client'[c].timeouts < client[c].timeouts =>
              /\ client'[c].currentPage = 0
              /\ ~client'[c].isUpdating
              /\ client'[c].totalPages =
                    Max(1, realTotalPages(client[c].shown, client[c].viewport) - 1)

====
